---- MODULE Spec2Model ----
(***************************************************************************)
(* Verification model of portfolio-lab (pyfinex):                          *)
(*   - Portfolio._hpr        cashflow-adjusted holding period returns      *)
(*   - Holdings.from_etoro   reconstruction of holdings from a ledger      *)
(*   - Portfolio.__init__    valuation (NAV) of holdings against prices    *)
(* Floats are modelled as exact rationals extended with NaN and +/-inf,    *)
(* the values pandas produces on division by zero.                         *)
(***************************************************************************)
EXTENDS Integers, Sequences, FiniteSets, TLC

VARIABLES
    \* ---- Portfolio._hpr
    nav,         \* self.nav: priced date -> NAV
    cashflows,   \* self.cashflows: date -> amount
    padFill,     \* whether the installed pandas pads NaN in pct_change (set when used)
    hprPc,       \* position inside _hpr
    df,          \* the working table of _hpr (sequence of rows)
    cfTodo,      \* row numbers of the cashflows the loop has still to visit
    hpr,         \* the returned series: sequence of [date, val]
    \* ---- Holdings.from_etoro
    ledger,        \* the account activity sheet as the caller loaded it
    acc_activity,  \* the caller's DataFrame object, as it is now
    run,           \* number of the current call of from_etoro on that object
    etPc,          \* position inside from_etoro
    etErr,         \* the exception that ended the call, if any
    etCashflows,   \* local cashflows
    cash_balance,  \* local cash_balance
    trades,        \* local trades (day x asset matrix of unit changes)
    splits,        \* local splits of _adjust_splits (grouped multipliers)
    result,        \* the Holdings object returned by the current call
    result1,       \* the outcome of the first call
    \* ---- Portfolio.__init__ (writes nav, cashflows and hpr above)
    holdings_obj,  \* argument holdings_obj
    prices,        \* argument prices
    pfPc,          \* position inside __init__
    pfErr,         \* the exception that ended the construction, if any
    self_holdings, \* self.holdings
    self_prices,   \* self.prices
    cash_holdings, \* self.cash_holdings
    nav_breakdown, \* self.nav_breakdown
    value,         \* self.value
    sdate,         \* self.sdate
    edate,         \* self.edate
    weights,       \* self.weights
    invested,      \* self.invested
    self_tickers,  \* self.tickers
    \* ---- providers._retry
    rtN,           \* n: maximum number of attempts
    rtWait,        \* wait: seconds to wait between attempts
    rtPc,          \* position inside wrapper
    attempt,       \* loop variable of wrapper
    rtScript,      \* what the retrieval does at the 1st, 2nd, ... call of func
    rtOutcome,     \* what the running call of func did
    rtLog,         \* what every call of func so far did, in order
    rtSlept,       \* length of every time.sleep so far, in order
    rtReturned,    \* value returned by wrapper
    rtRaised,      \* exception that left wrapper
    adj,           \* LSEG.get_historical: the adjustment option
    apiCalls,      \* LSEG.get_historical: calls of rd.get_history so far
    \* ---- Asset: a date-range selection and the statistic computed on it
    asHpr,         \* self._hpr: date -> return
    asFreq,        \* self.freq
    asMethod,      \* the method called: "_hpr_range", "cumul" or "tr"
    arg_sdate,     \* argument sdate (NoDate when left out)
    arg_edate,     \* argument edate (NoDate when left out)
    asPc,          \* position inside the method
    asRet,         \* ret: the returns _hpr_range selected
    asOut,         \* the value the method returned
    asErr          \* the exception that ended the method, if any

hprVars == <<nav, cashflows, padFill, hprPc, df, cfTodo, hpr>>
etVars == <<ledger, acc_activity, run, etPc, etErr, etCashflows, cash_balance,
            trades, splits, result, result1>>
pfVars == <<holdings_obj, prices, pfPc, pfErr, self_holdings, self_prices,
            cash_holdings, nav_breakdown, value, sdate, edate, weights,
            invested, self_tickers>>
rtVars == <<rtN, rtWait, rtPc, attempt, rtScript, rtOutcome, rtLog, rtSlept, rtReturned,
            rtRaised, adj, apiCalls>>
asVars == <<asHpr, asFreq, asMethod, arg_sdate, arg_edate, asPc, asRet, asOut, asErr>>
vars == <<hprVars, etVars, pfVars, rtVars, asVars>>

\* values of the variables of a component that a behaviour does not exercise
None == [kind |-> "None"]
HprIdle ==
    /\ nav = <<>> /\ cashflows = <<>> /\ padFill = FALSE /\ hprPc = "idle"
    /\ df = <<>> /\ cfTodo = <<>> /\ hpr = <<>>
EtIdle ==
    /\ ledger = <<>> /\ acc_activity = None /\ run = 0 /\ etPc = "idle"
    /\ etErr = None /\ etCashflows = <<>> /\ cash_balance = <<>>
    /\ trades = None /\ splits = <<>> /\ result = None /\ result1 = None
PfIdle ==
    /\ holdings_obj = None /\ prices = None /\ pfPc = "idle" /\ pfErr = None
    /\ self_holdings = None /\ self_prices = None /\ cash_holdings = None
    /\ nav_breakdown = None /\ value = None /\ sdate = None /\ edate = None
    /\ weights = None /\ invested = None /\ self_tickers = None
RtIdle ==
    /\ rtN = 0 /\ rtWait = 0 /\ rtPc = "idle" /\ attempt = 0 /\ rtScript = <<>>
    /\ rtOutcome = None
    /\ rtLog = <<>> /\ rtSlept = <<>> /\ rtReturned = None /\ rtRaised = None
    /\ adj = "idle" /\ apiCalls = 0
AsIdle ==
    /\ asHpr = <<>> /\ asFreq = "D" /\ asMethod = "idle" /\ arg_sdate = -1
    /\ arg_edate = -1 /\ asPc = "idle" /\ asRet = <<>> /\ asOut = None
    /\ asErr = "None"

(***************************************************************************)
(* Bounds of the model                                                     *)
(***************************************************************************)
MaxDay == 2          \* dates are 0..MaxDay
MaxNav == 2          \* NAV inputs are 0..MaxNav
MaxCf == 2           \* cashflow amounts are -MaxCf, -1, 1, MaxCf
MaxCashflows == 2    \* at most this many dates carry a cashflow

Days == 0..MaxDay

(***************************************************************************)
(* Float arithmetic: rationals n/d in lowest terms, NaN, +inf, -inf        *)
(***************************************************************************)
RECURSIVE GCD(_, _)
GCD(a, b) == IF b = 0 THEN a ELSE GCD(b, a % b)

Abs(x) == IF x < 0 THEN -x ELSE x

NaN  == [k |-> "nan", n |-> 0, d |-> 1]
PInf == [k |-> "inf", n |-> 1, d |-> 1]
NInf == [k |-> "inf", n |-> -1, d |-> 1]

Fin(n, d) ==
    LET s == IF d < 0 THEN -1 ELSE 1
        g == GCD(Abs(n), Abs(d))
    IN  [k |-> "fin", n |-> (s * n) \div g, d |-> (s * d) \div g]

Num(i) == [k |-> "fin", n |-> i, d |-> 1]

IsNaN(a) == a.k = "nan"
IsFin(a) == a.k = "fin"
IsInf(a) == a.k = "inf"
IsZero(a) == a.k = "fin" /\ a.n = 0
Sign(a) == IF a.n > 0 THEN 1 ELSE IF a.n < 0 THEN -1 ELSE 0
InfOf(s) == IF s > 0 THEN PInf ELSE NInf

VNeg(a) == [a EXCEPT !.n = -a.n]

VAdd(a, b) ==
    IF IsNaN(a) \/ IsNaN(b) THEN NaN
    ELSE IF IsInf(a) /\ IsInf(b) THEN (IF a.n = b.n THEN a ELSE NaN)
    ELSE IF IsInf(a) THEN a
    ELSE IF IsInf(b) THEN b
    ELSE Fin(a.n * b.d + b.n * a.d, a.d * b.d)

VSub(a, b) == VAdd(a, VNeg(b))

VMul(a, b) ==
    IF IsNaN(a) \/ IsNaN(b) THEN NaN
    ELSE IF IsInf(a) \/ IsInf(b)
         THEN (IF IsZero(a) \/ IsZero(b) THEN NaN ELSE InfOf(Sign(a) * Sign(b)))
    ELSE Fin(a.n * b.n, a.d * b.d)

\* IEEE division; a zero divisor is +0.0
VDiv(a, b) ==
    IF IsNaN(a) \/ IsNaN(b) THEN NaN
    ELSE IF IsInf(a) /\ IsInf(b) THEN NaN
    ELSE IF IsInf(a) THEN InfOf(Sign(a) * (IF Sign(b) < 0 THEN -1 ELSE 1))
    ELSE IF IsInf(b) THEN Num(0)
    ELSE IF b.n = 0 THEN (IF a.n = 0 THEN NaN ELSE InfOf(Sign(a)))
    ELSE Fin(a.n * b.d, a.d * b.n)

(***************************************************************************)
(* Sequences helpers                                                       *)
(***************************************************************************)
SetMin(S) == CHOOSE x \in S : \A y \in S : x <= y
SetMax(S) == CHOOSE x \in S : \A y \in S : x >= y

RECURSIVE SortedSeq(_)
SortedSeq(S) ==
    IF S = {} THEN <<>>
    ELSE LET m == SetMin(S) IN <<m>> \o SortedSeq(S \ {m})

RECURSIVE SumSeq(_)
SumSeq(s) == IF s = <<>> THEN Num(0) ELSE VAdd(Head(s), SumSeq(Tail(s)))

(***************************************************************************)
(* Portfolio._hpr                                                          *)
(***************************************************************************)
\* pd.concat([nav, cashflows], axis=1, join='outer').reset_index(), plus the
\* zero adj_cf column: one row per date of either series, in date order
\* (pandas sorts the union of two DatetimeIndexes); a missing cell is NaN.
HprJoin(nv, cfs) ==
    LET dates == SortedSeq(DOMAIN nv \cup DOMAIN cfs)
    IN  [i \in 1..Len(dates) |->
            [date   |-> dates[i],
             nav    |-> IF dates[i] \in DOMAIN nv THEN nv[dates[i]] ELSE NaN,
             cf     |-> IF dates[i] \in DOMAIN cfs THEN cfs[dates[i]] ELSE NaN,
             adj_cf |-> Num(0)]]

\* line 125 on a cashflow series given as a sequence of [date, amount]: concat
\* cannot align a series whose index repeats a date with another index
CashflowDates(cfSeq) == {cfSeq[i].date : i \in 1..Len(cfSeq)}
CashflowSeriesFn(cfSeq) ==
    [d \in CashflowDates(cfSeq) |->
        cfSeq[CHOOSE i \in 1..Len(cfSeq) : cfSeq[i].date = d].amount]
HprConcat(nv, cfSeq) ==
    IF \E i \in 1..Len(cfSeq) : \E j \in 1..Len(cfSeq) :
          i < j /\ cfSeq[i].date = cfSeq[j].date
    THEN [ok |-> FALSE, err |-> "InvalidIndexError", df |-> <<>>]
    ELSE [ok |-> TRUE, err |-> "None", df |-> HprJoin(nv, CashflowSeriesFn(cfSeq))]

\* df.loc[df['cf'].notna(), 'cf'].items(): the rows to visit, in order
HprCashflowRows(t) ==
    LET RECURSIVE Rows(_)
        Rows(i) == IF i > Len(t) THEN <<>>
                   ELSE (IF IsNaN(t[i].cf) THEN <<>> ELSE <<i>>) \o Rows(i + 1)
    IN  Rows(1)

\* (mutant) attribution to the cashflow's own row
HprTargetSameRow(t, i, j) == i

\* The row whose adj_cf the loop body increments for the cashflow of row i,
\* once the walk back from i-1 has met a row with a NAV: df.at[i-1, 'adj_cf']
HprTargetRow(t, i, j) == i - 1

\* One iteration of the for loop: walk j = i-1 down to the first row with a
\* valid NAV; if there is one, add the cashflow to the target row.
HprAttribute(t, i) ==
    LET priced == {j \in 1..(i - 1) : ~IsNaN(t[j].nav)}
    IN  IF priced = {} THEN t
        ELSE LET j == SetMax(priced)
                 r == HprTargetRow(t, i, j)
             IN  [t EXCEPT ![r].adj_cf = VAdd(t[r].adj_cf, t[i].cf)]

RECURSIVE HprAttributeAll(_, _)
HprAttributeAll(t, todo) ==
    IF todo = <<>> THEN t
    ELSE HprAttributeAll(HprAttribute(t, Head(todo)), Tail(todo))

\* df.dropna(subset=['nav'])
HprDropUnpriced(t) == SelectSeq(t, LAMBDA r : ~IsNaN(r.nav))

\* (mutant) theta that leaves the attributed cashflow out
HprThetaNoCashflow(r) == VDiv(r.nav, r.nav)

\* theta = (nav + adj_cf) / nav
HprTheta(r) == VDiv(VAdd(r.nav, r.adj_cf), r.nav)

\* theta.iloc[::-1].cumprod().iloc[::-1]: cumprod skips NaN inputs (they count
\* as 1 and give NaN at their own position)
RECURSIVE HprRunProd(_, _)
HprRunProd(t, i) ==
    IF i > Len(t) THEN Num(1)
    ELSE LET th == HprTheta(t[i])
         IN  VMul(IF IsNaN(th) THEN Num(1) ELSE th, HprRunProd(t, i + 1))

HprAdjFactor(t, i) == IF IsNaN(HprTheta(t[i])) THEN NaN ELSE HprRunProd(t, i)

\* adj_nav = nav * adj_factor
HprAdjNav(t) == [i \in 1..Len(t) |-> VMul(t[i].nav, HprAdjFactor(t, i))]

\* forward fill of NaN (pct_change's fill_method='pad')
RECURSIVE Pad(_, _)
Pad(s, i) ==
    IF i = 0 THEN NaN
    ELSE IF ~IsNaN(s[i]) THEN s[i] ELSE Pad(s, i - 1)

\* adj_nav.pct_change(): data / data.shift(1) - 1, on the padded data where
\* the installed pandas still pads by default
HprPctChange(s, pad) ==
    LET data == IF pad THEN [i \in 1..Len(s) |-> Pad(s, i)] ELSE s
    IN  [i \in 1..Len(s) |->
            IF i = 1 THEN NaN ELSE VSub(VDiv(data[i], data[i - 1]), Num(1))]

\* lines 144-154: theta, adj_factor, adj_nav, pct_change, iloc[1:]
HprReturns(t, pad) ==
    LET pc == HprPctChange(HprAdjNav(t), pad)
    IN  [i \in 1..(Len(t) - 1) |-> [date |-> t[i + 1].date, val |-> pc[i + 1]]]

\* the whole of _hpr as a function of its inputs
HprOf(nv, cfs, pad) ==
    LET t0 == HprJoin(nv, cfs)
        t1 == HprAttributeAll(t0, HprCashflowRows(t0))
    IN  HprReturns(HprDropUnpriced(t1), pad)

(***************************************************************************)
(* Specification of _hpr: inputs drawn at Init, one action per step        *)
(***************************************************************************)
NavVals == {Num(v) : v \in 0..MaxNav}
CfVals == {Num(v) : v \in {-MaxCf, -1, 1, MaxCf}}

PartialFns(D, V) == UNION {[S -> V] : S \in SUBSET D}

HprInit ==
    /\ nav \in {f \in PartialFns(Days, NavVals) : DOMAIN f # {}}
    /\ cashflows \in {f \in PartialFns(Days, CfVals) :
                           Cardinality(DOMAIN f) <= MaxCashflows}
    /\ padFill = FALSE
    /\ hprPc = "join"
    /\ df = <<>>
    /\ cfTodo = <<>>
    /\ hpr = <<>>
    /\ EtIdle
    /\ PfIdle
    /\ RtIdle
    /\ AsIdle

\* lines 125-128
HprStepJoin ==
    /\ hprPc = "join"
    /\ df' = HprJoin(nav, cashflows)
    /\ cfTodo' = HprCashflowRows(df')
    /\ hprPc' = "loop"
    /\ UNCHANGED <<nav, cashflows, padFill, hpr, etVars, pfVars, rtVars, asVars>>

\* lines 132-138, one cashflow
HprStepAttribute ==
    /\ hprPc = "loop"
    /\ cfTodo # <<>>
    /\ df' = HprAttribute(df, Head(cfTodo))
    /\ cfTodo' = Tail(cfTodo)
    /\ UNCHANGED <<nav, cashflows, padFill, hprPc, hpr, etVars, pfVars, rtVars, asVars>>

\* lines 141-142
HprStepDrop ==
    /\ hprPc = "loop"
    /\ cfTodo = <<>>
    /\ df' = HprDropUnpriced(df)
    /\ hprPc' = "returns"
    /\ UNCHANGED <<nav, cashflows, padFill, cfTodo, hpr, etVars, pfVars, rtVars, asVars>>

\* lines 144-154
HprStepReturns ==
    /\ hprPc = "returns"
    /\ padFill' \in BOOLEAN
    /\ hpr' = HprReturns(df, padFill')
    /\ hprPc' = "done"
    /\ UNCHANGED <<nav, cashflows, df, cfTodo, etVars, pfVars, rtVars, asVars>>

HprNext ==
    \/ HprStepJoin
    \/ HprStepAttribute
    \/ HprStepDrop
    \/ HprStepReturns

SpecHpr == HprInit /\ [][HprNext]_vars

(***************************************************************************)
(* Properties of _hpr                                                      *)
(***************************************************************************)
PricedDates == DOMAIN nav
FirstPriced == SetMin(PricedDates)
\* the priced date nearest before date d (d later than the first priced date)
PrevPriced(d) == SetMax({p \in PricedDates : p < d})

\* total of the cashflows whose nearest earlier priced date is p
NearestAttribution(p) ==
    SumSeq([i \in 1..Len(SortedSeq({d \in DOMAIN cashflows :
                                        d > FirstPriced /\ PrevPriced(d) = p})) |->
              cashflows[SortedSeq({d \in DOMAIN cashflows :
                                     d > FirstPriced /\ PrevPriced(d) = p})[i]]])

\* C1: once the loop has run and the unpriced rows are dropped, every priced
\* row's adjusted cashflow is the total of the cashflows whose nearest earlier
\* priced row it is, so the adjusted cashflows add up to the total of all the
\* cashflows that have an earlier priced row (no amount is lost).
C1_NearestPricedAttribution ==
    hprPc \in {"returns", "done"} =>
        /\ \A i \in 1..Len(df) : df[i].adj_cf = NearestAttribution(df[i].date)
        /\ SumSeq([i \in 1..Len(df) |-> df[i].adj_cf])
             = SumSeq([i \in 1..Len(SortedSeq({d \in DOMAIN cashflows : d > FirstPriced})) |->
                        cashflows[SortedSeq({d \in DOMAIN cashflows : d > FirstPriced})[i]]])


\* ---- a single deposit D on a priced day K after the first priced day
SingleDeposit ==
    /\ Cardinality(DOMAIN cashflows) = 1
    /\ \A d \in DOMAIN cashflows :
          d \in PricedDates /\ d > FirstPriced /\ cashflows[d].n > 0
DepositDay == CHOOSE d \in DOMAIN cashflows : TRUE
Deposit == cashflows[DepositDay]

\* The no-deposit baseline of which nav is the injected path, when the deposit
\* is invested at valuation x: nav = baseline * (x + D) / x from day K onward.
BaselineAt(x) ==
    [t \in PricedDates |->
        IF t < DepositDay THEN nav[t]
        ELSE VMul(nav[t], VDiv(x, VAdd(x, Deposit)))]

NoCashflows == [d \in {} |-> NaN]

\* C2 as stated: the deposit is invested at day K's own valuation, so the NAV
\* of day K is the baseline NAV of day K plus the deposit and later NAVs grow
\* in proportion; the HPR series equals that of the baseline.
C2_InvarianceAtDayK ==
    (hprPc = "done" /\ SingleDeposit /\ VSub(nav[DepositDay], Deposit).n > 0) =>
        hpr = HprOf(BaselineAt(VSub(nav[DepositDay], Deposit)), NoCashflows, padFill)

\* C2 amended: the deposit is invested at the valuation of the priced day
\* before K (a start-of-day deposit: NAV from day K onward is the baseline
\* times (NAV[K-1] + D) / NAV[K-1]); the HPR series equals that of the baseline.
C2_InvarianceAtPrevClose ==
    (hprPc = "done" /\ SingleDeposit /\ nav[PrevPriced(DepositDay)].n > 0) =>
        hpr = HprOf(BaselineAt(nav[PrevPriced(DepositDay)]), NoCashflows, padFill)

C2_Witness ==
    /\ hprPc = "done"
    /\ SingleDeposit
    /\ \A t \in PricedDates : nav[t].n > 0
    /\ nav[DepositDay] # nav[PrevPriced(DepositDay)]
    /\ BaselineAt(nav[PrevPriced(DepositDay)])[DepositDay] # nav[PrevPriced(DepositDay)]
    /\ Len(hpr) >= 2

\* ---- the closed form of one return
\* NAV[t] / (NAV[t-1] + A[t-1]) - 1 for the i-th return (rows i, i+1 of df)
HprClosedForm(i) ==
    VSub(VDiv(df[i + 1].nav, VAdd(df[i].nav, df[i].adj_cf)), Num(1))

HprShape ==
    /\ Len(hpr) = Cardinality(PricedDates) - 1
    /\ \A i \in 1..Len(hpr) : hpr[i].date = SortedSeq(PricedDates)[i + 1]

\* C3 as stated: one return per priced date but the first, each equal to the
\* closed form (wherever the closed form is a number), whatever is attributed
\* to other dates.
C3_ClosedFormAlways ==
    hprPc = "done" =>
        /\ HprShape
        /\ \A i \in 1..Len(hpr) :
              IsFin(HprClosedForm(i)) => hpr[i].val = HprClosedForm(i)

\* from row i on, NAV and NAV + A are non-zero
NonDegenerateFrom(i) ==
    \A s \in i..Len(df) :
        ~IsZero(df[s].nav) /\ ~IsZero(VAdd(df[s].nav, df[s].adj_cf))

\* C3 amended: one return per priced date but the first; the return of date t
\* equals the closed form provided NAV and NAV + A are non-zero on every
\* priced date from t-1 on.
C3_ClosedFormNonDegenerate ==
    hprPc = "done" =>
        /\ HprShape
        /\ \A i \in 1..Len(hpr) :
              NonDegenerateFrom(i) => hpr[i].val = HprClosedForm(i)

C3_Witness ==
    /\ hprPc = "done"
    /\ Len(hpr) >= 2
    /\ NonDegenerateFrom(1)
    /\ ~IsZero(df[1].adj_cf)
    /\ ~IsZero(df[2].adj_cf)
    /\ hpr[1].val # hpr[2].val


(***************************************************************************)
(* Holdings.from_etoro: the ledger                                         *)
(***************************************************************************)
MaxRows == 3         \* a ledger has 1..MaxRows rows
Today == 3           \* the day of the call (pd.Timestamp.today())
Timestamps == {0, 1, 2}    \* row timestamps: two times of day 0, one of day 1
SplitRatios == {<<2, 1>>, <<4, 2>>, <<1, 2>>}   \* the N:M of split rows

\* Date.normalize(): the calendar day of a timestamp
DayOf(t) == t \div 2

\* the static ticker mapping table (eToro symbol -> LSEG symbol)
TickerMapper == [x \in {"AAA", "BBB"} |-> IF x = "AAA" THEN "AAA.O" ELSE "BBB.N"]
\* sort order of the asset labels
AssetOrder == <<"AAA.O", "BBB.N">>
AssetRank(a) == CHOOSE i \in 1..Len(AssetOrder) : AssetOrder[i] = a

NoRatio == <<0, 0>>
LedgerRow(t, ty, sym, ratio, units, amount) ==
    [time |-> t, type |-> ty, details |-> [sym |-> sym, ratio |-> ratio],
     units |-> units, amount |-> amount, balance |-> Num(0)]

\* the rows a ledger is drawn from (Balance is filled in by WithBalance)
RowShapes ==
    UNION {
        {LedgerRow(t, "Deposit", "", NoRatio, NaN, Num(1))}
        \cup {LedgerRow(t, "Open Position", y, NoRatio, Num(1), Num(1)) :
                 y \in {"AAA", "BBB", "ZZZ", "YYY"}}
        \cup {LedgerRow(t, "Position closed", "AAA", NoRatio, Num(1), Num(1))}
        \cup {LedgerRow(t, "corp action: Split", "AAA", q, NaN, Num(0)) :
                 q \in SplitRatios}
        : t \in Timestamps}

\* the running cash balance a statement prints on every row
BalanceStep(b, r) ==
    IF r.type = "Deposit" THEN VAdd(b, r.amount)
    ELSE IF r.type = "Open Position" THEN VSub(b, r.amount)
    ELSE IF r.type = "Position closed" THEN VAdd(b, r.amount)
    ELSE b

RECURSIVE WithBalance(_, _)
WithBalance(rows, b) ==
    IF rows = <<>> THEN <<>>
    ELSE LET nb == BalanceStep(b, Head(rows))
         IN  <<[Head(rows) EXCEPT !.balance = nb]>> \o WithBalance(Tail(rows), nb)

\* statements list their rows in time order
Chronological(g) == \A i \in 1..(Len(g) - 1) : g[i].time <= g[i + 1].time

\* the DataFrame the caller read from the sheet
SheetColumns == <<"Date", "Type", "Details", "Amount", "Units / Contracts", "Balance">>
FreshTable(rows) ==
    [columns |-> SheetColumns, index |-> "RangeIndex",
     dates |-> "str", numbers |-> "str", rows |-> rows]

Range(q) == {q[i] : i \in 1..Len(q)}


(***************************************************************************)
(* Holdings.from_etoro: the transformations                                *)
(***************************************************************************)
NoError == [kind |-> "None", tickers |-> {}]
Raised(kind, tickers) == [kind |-> kind, tickers |-> tickers]

\* lines 68-72: the Date column becomes datetime and then the index, in place
EtParseDates(t) ==
    [t EXCEPT !.dates = "datetime64", !.index = "Date",
              !.columns = SelectSeq(t.columns, LAMBDA c : c # "Date")]

\* lines 75-81: the columns Amount..Balance become floats, in place
EtCleanNumbers(t) == [t EXCEPT !.numbers = "float64"]

\* lines 84-88: the Amount of the Deposit rows, indexed by calendar day
EtCashflowsOf(rows) ==
    LET dep == SelectSeq(rows, LAMBDA r : r.type = "Deposit")
    IN  [i \in 1..Len(dep) |-> [date |-> DayOf(dep[i].time), amount |-> dep[i].amount]]

RowDays(rows) == {DayOf(rows[i].time) : i \in 1..Len(rows)}

\* line 91: Balance.resample('D').last().ffill()
EtCashBalanceOf(rows) ==
    [d \in SetMin(RowDays(rows))..SetMax(RowDays(rows)) |->
        rows[SetMax({i \in 1..Len(rows) : DayOf(rows[i].time) <= d})].balance]

\* lines 94-96
EtTradeRows(rows) ==
    SelectSeq(rows, LAMBDA r : r.type \in {"Open Position", "Position closed"})

\* line 146: value.split('/')[0]
OldTicks(rs) == [i \in 1..Len(rs) |-> rs[i].details.sym]

\* (mutant) only the first unmapped ticker is reported
UnmappedFirstOnly(ticks) ==
    LET u == SelectSeq(ticks, LAMBDA x : x \notin DOMAIN TickerMapper)
    IN  IF u = <<>> THEN u ELSE <<Head(u)>>

\* line 149
Unmapped(ticks) == SelectSeq(ticks, LAMBDA x : x \notin DOMAIN TickerMapper)

\* lines 139-158: _convert_etoro_tickers
ConvertTickers(ticks) ==
    IF Unmapped(ticks) = <<>>
    THEN [ok |-> TRUE, val |-> [i \in 1..Len(ticks) |-> TickerMapper[ticks[i]]],
          err |-> NoError]
    ELSE [ok |-> FALSE, val |-> <<>>,
          err |-> Raised("MappingError", Range(Unmapped(ticks)))]

\* (mutant) closes counted like opens
ChangeUnsigned(r) == r.units
\* lines 102-105
Change(r) == IF r.type = "Open Position" THEN r.units ELSE VNeg(r.units)

\* lines 108-116: changes summed per timestamp and asset, pivoted, then summed
\* per calendar day over every day from the first to the last trade
EtTradeMatrix(rs, assets) ==
    LET days == RowDays(rs)
        idx == IF days = {} THEN {} ELSE SetMin(days)..SetMax(days)
        ch(d, a) == SelectSeq([i \in 1..Len(rs) |->
                                  IF DayOf(rs[i].time) = d /\ assets[i] = a
                                  THEN Change(rs[i]) ELSE NaN],
                              LAMBDA x : ~IsNaN(x))
    IN  [idx |-> idx, cols |-> Range(assets),
         val |-> [d \in idx |-> [a \in Range(assets) |-> SumSeq(ch(d, a))]]]


\* lines 183-185: the split rows, duplicates in (Date, Details) dropped
EtSplitRows(rows) == SelectSeq(rows, LAMBDA r : r.type = "corp action: Split")

DropDuplicates(rs) ==
    LET keep == {i \in 1..Len(rs) :
                    \A j \in 1..(i - 1) :
                        ~(rs[j].time = rs[i].time /\ rs[j].details = rs[i].details)}
        order == SortedSeq(keep)
    IN  [k \in 1..Len(order) |-> rs[order[k]]]

\* lines 192-198: Numerator / Denominator
Multiplier(r) == VDiv(Num(r.details.ratio[1]), Num(r.details.ratio[2]))

RECURSIVE ProdSeq(_)
ProdSeq(q) == IF q = <<>> THEN Num(1) ELSE VMul(Head(q), ProdSeq(Tail(q)))

\* (mutant) same-day multipliers added up
CombineBySum(ms) == SumSeq(ms)

\* line 207: groupby(['Date', 'Asset'])['Multiplier'].prod()
CombineMultipliers(ms) == ProdSeq(ms)

\* lines 204-208: one row per (day, asset), sorted by day then asset
KeyRank(d, a) == d * (Len(AssetOrder) + 1) + AssetRank(a)
EtSplitGroups(rs, assets) ==
    LET ranks == SortedSeq({KeyRank(DayOf(rs[i].time), assets[i]) : i \in 1..Len(rs)})
        members(k) == {i \in 1..Len(rs) : KeyRank(DayOf(rs[i].time), assets[i]) = k}
        first(k) == SetMin(members(k))
        mults(k) == LET o == SortedSeq(members(k))
                    IN  [n \in 1..Len(o) |-> Multiplier(rs[o[n]])]
    IN  [g \in 1..Len(ranks) |->
            [date  |-> DayOf(rs[first(ranks[g])].time),
             asset |-> assets[first(ranks[g])],
             mult  |-> CombineMultipliers(mults(ranks[g]))]]

\* line 214-215: trades.loc[:date, asset].cumsum().iloc[-1]
RECURSIVE SumDays(_, _, _)
SumDays(m, a, D) ==
    IF D = {} THEN Num(0)
    ELSE LET d == SetMin(D) IN VAdd(m.val[d][a], SumDays(m, a, D \ {d}))

Held(m, date, a) == SumDays(m, a, {d \in m.idx : d <= date})

\* lines 213-220, one split: the outcome is the patched matrix or an exception
ApplySplit(m, g) ==
    IF g.asset \notin m.cols THEN [ok |-> FALSE, m |-> m, err |-> Raised("KeyError", {})]
    ELSE IF {d \in m.idx : d <= g.date} = {}
         THEN [ok |-> FALSE, m |-> m, err |-> Raised("IndexError", {})]
    ELSE IF g.date \notin m.idx
         THEN [ok |-> FALSE, m |-> m, err |-> Raised("KeyError", {})]
    ELSE LET held   == Held(m, g.date, g.asset)
             new    == VMul(held, g.mult)
             adjust == VSub(new, held)
         IN  [ok  |-> TRUE,
              m   |-> [m EXCEPT !.val[g.date][g.asset] = VAdd(@, adjust)],
              err |-> NoError]

\* lines 211-222
RECURSIVE ApplySplits(_, _)
ApplySplits(m, gs) ==
    IF gs = <<>> THEN [ok |-> TRUE, m |-> m, err |-> NoError]
    ELSE LET one == ApplySplit(m, Head(gs))
         IN  IF one.ok THEN ApplySplits(one.m, Tail(gs)) ELSE one

\* line 124: abs(x) < 1e-10, 1e-10 = 1 / (ClampRoot * ClampRoot)
ClampRoot == 100000
Clamp(x) ==
    IF IsFin(x) /\ Abs(x.n) <= ((x.d - 1) \div ClampRoot) \div ClampRoot
    THEN Num(0) ELSE x

\* (mutant) reindex without the forward fill
ReindexedNoFill(f, range) == [d \in range |-> IF d \in DOMAIN f THEN f[d] ELSE NaN]
\* reindex(full_range).ffill() of a day-indexed series
Reindexed(f, range) ==
    [d \in range |->
        IF {x \in DOMAIN f : x <= d} = {} THEN NaN
        ELSE f[SetMax({x \in DOMAIN f : x <= d})]]

SortedAssets(cols) ==
    LET r == SortedSeq({AssetRank(a) : a \in cols})
    IN  [i \in 1..Len(r) |-> AssetOrder[r[i]]]

\* lines 123-136 and Holdings.__init__ (lines 47-52)
EtBuild(m, cfs, cash) ==
    IF m.idx = {} THEN [ok |-> FALSE, obj |-> None, err |-> Raised("ValueError", {})]
    ELSE LET holdings == [d \in m.idx |-> [a \in m.cols |-> Clamp(Held(m, d, a))]]
             full_range == SetMin(m.idx)..(Today - 1)
         IN  IF full_range = {}
             THEN [ok |-> FALSE, obj |-> None, err |-> Raised("IndexError", {})]
             ELSE [ok  |-> TRUE,
                   obj |-> [index |-> full_range,
                            tickers |-> SortedAssets(m.cols),
                            holdings |-> Reindexed(holdings, full_range),
                            cashflows |-> cfs,
                            cash_holdings |-> Reindexed(cash, full_range),
                            invested |-> SumSeq([i \in 1..Len(cfs) |-> cfs[i].amount])],
                   err |-> NoError]


(***************************************************************************)
(* Specification of from_etoro: a caller loads a sheet and calls           *)
(* from_etoro on it, and may call it once more on the same DataFrame       *)
(***************************************************************************)
EtInit ==
    /\ \E n \in 1..MaxRows : \E g \in [1..n -> RowShapes] :
          Chronological(g) /\ ledger = WithBalance(g, Num(0))
    /\ acc_activity = FreshTable(ledger)
    /\ run = 1
    /\ etPc = "dates"
    /\ etErr = NoError
    /\ etCashflows = <<>>
    /\ cash_balance = <<>>
    /\ trades = None
    /\ splits = <<>>
    /\ result = None
    /\ result1 = None
    /\ HprIdle
    /\ PfIdle
    /\ RtIdle
    /\ AsIdle

EtFail(e) == etPc' = "failed" /\ etErr' = e

\* lines 68-72; acc_activity["Date"] raises KeyError when there is no such column
EtStepDates ==
    /\ etPc = "dates"
    /\ IF "Date" \in Range(acc_activity.columns)
       THEN /\ acc_activity' = EtParseDates(acc_activity)
            /\ etPc' = "numbers"
            /\ UNCHANGED etErr
       ELSE /\ EtFail(Raised("KeyError", {}))
            /\ UNCHANGED acc_activity
    /\ UNCHANGED <<ledger, run, etCashflows, cash_balance, trades, splits,
                   result, result1, hprVars, pfVars, rtVars, asVars>>

\* lines 75-81
EtStepNumbers ==
    /\ etPc = "numbers"
    /\ acc_activity' = EtCleanNumbers(acc_activity)
    /\ etPc' = "cashflows"
    /\ UNCHANGED <<ledger, run, etErr, etCashflows, cash_balance, trades, splits,
                   result, result1, hprVars, pfVars, rtVars, asVars>>

\* lines 84-91
EtStepCashflows ==
    /\ etPc = "cashflows"
    /\ etCashflows' = EtCashflowsOf(acc_activity.rows)
    /\ cash_balance' = EtCashBalanceOf(acc_activity.rows)
    /\ etPc' = "trades"
    /\ UNCHANGED <<ledger, acc_activity, run, etErr, trades, splits,
                   result, result1, hprVars, pfVars, rtVars, asVars>>

\* lines 94-116
EtStepTrades ==
    /\ etPc = "trades"
    /\ LET rs == EtTradeRows(acc_activity.rows)
           conv == ConvertTickers(OldTicks(rs))
       IN  IF conv.ok
           THEN /\ trades' = EtTradeMatrix(rs, conv.val)
                /\ etPc' = "splits"
                /\ UNCHANGED etErr
           ELSE /\ EtFail(conv.err)
                /\ UNCHANGED trades
    /\ UNCHANGED <<ledger, acc_activity, run, etCashflows, cash_balance, splits,
                   result, result1, hprVars, pfVars, rtVars, asVars>>

\* lines 179-208 of _adjust_splits
EtStepLocateSplits ==
    /\ etPc = "splits"
    /\ LET rs == DropDuplicates(EtSplitRows(acc_activity.rows))
           conv == ConvertTickers(OldTicks(rs))
       IN  IF conv.ok
           THEN /\ splits' = EtSplitGroups(rs, conv.val)
                /\ etPc' = "apply"
                /\ UNCHANGED etErr
           ELSE /\ EtFail(conv.err)
                /\ UNCHANGED splits
    /\ UNCHANGED <<ledger, acc_activity, run, etCashflows, cash_balance, trades,
                   result, result1, hprVars, pfVars, rtVars, asVars>>

\* lines 211-222 of _adjust_splits
EtStepApplySplits ==
    /\ etPc = "apply"
    /\ LET out == ApplySplits(trades, splits)
       IN  IF out.ok
           THEN /\ trades' = out.m
                /\ etPc' = "build"
                /\ UNCHANGED etErr
           ELSE /\ EtFail(out.err)
                /\ UNCHANGED trades
    /\ UNCHANGED <<ledger, acc_activity, run, etCashflows, cash_balance, splits,
                   result, result1, hprVars, pfVars, rtVars, asVars>>

\* lines 123-136
EtStepBuild ==
    /\ etPc = "build"
    /\ LET out == EtBuild(trades, etCashflows, cash_balance)
       IN  IF out.ok
           THEN /\ result' = out.obj
                /\ etPc' = "done"
                /\ UNCHANGED etErr
           ELSE /\ EtFail(out.err)
                /\ UNCHANGED result
    /\ UNCHANGED <<ledger, acc_activity, run, etCashflows, cash_balance, trades,
                   splits, result1, hprVars, pfVars, rtVars, asVars>>

\* the caller runs from_etoro again on the DataFrame it still holds
EtCallAgain ==
    /\ etPc \in {"done", "failed"}
    /\ run = 1
    /\ run' = 2
    /\ result1' = [pc |-> etPc, err |-> etErr, obj |-> result]
    /\ etPc' = "dates"
    /\ etErr' = NoError
    /\ etCashflows' = <<>>
    /\ cash_balance' = <<>>
    /\ trades' = None
    /\ splits' = <<>>
    /\ result' = None
    /\ UNCHANGED <<ledger, acc_activity, hprVars, pfVars, rtVars, asVars>>

EtNext ==
    \/ EtStepDates
    \/ EtStepNumbers
    \/ EtStepCashflows
    \/ EtStepTrades
    \/ EtStepLocateSplits
    \/ EtStepApplySplits
    \/ EtStepBuild
    \/ EtCallAgain

SpecLedger == EtInit /\ [][EtNext]_vars


(***************************************************************************)
(* Properties of from_etoro, stated on the ledger as the caller loaded it  *)
(***************************************************************************)
TradeIdx == {i \in 1..Len(ledger) :
                ledger[i].type \in {"Open Position", "Position closed"}}
SplitIdx == {i \in 1..Len(ledger) : ledger[i].type = "corp action: Split"}
UnmappedTradeSyms == {ledger[i].details.sym : i \in TradeIdx} \ DOMAIN TickerMapper
TradeDays == {DayOf(ledger[i].time) : i \in TradeIdx}
DepositIdx == {i \in 1..Len(ledger) : ledger[i].type = "Deposit"}
Finished == etPc \in {"done", "failed"}

\* net units of symbol y bought up to and including day d, splits left aside
NetUnits(y, d) ==
    LET idx == SortedSeq({i \in TradeIdx :
                            ledger[i].details.sym = y /\ DayOf(ledger[i].time) <= d})
    IN  SumSeq([k \in 1..Len(idx) |->
                  IF ledger[idx[k]].type = "Open Position"
                  THEN ledger[idx[k]].units ELSE VNeg(ledger[idx[k]].units)])

\* ---- one split row, of a symbol first traded on or before the split day
TheSplit == ledger[CHOOSE i \in SplitIdx : TRUE]
SplitDay == DayOf(TheSplit.time)
SplitSym == TheSplit.details.sym
OneSplitOfHeld ==
    /\ Cardinality(SplitIdx) = 1
    /\ UnmappedTradeSyms = {}
    /\ \E i \in TradeIdx :
          ledger[i].details.sym = SplitSym /\ DayOf(ledger[i].time) <= SplitDay

SplitExpected(d) ==
    IF d < SplitDay THEN NetUnits(SplitSym, d)
    ELSE VAdd(VMul(NetUnits(SplitSym, SplitDay), Multiplier(TheSplit)),
              VSub(NetUnits(SplitSym, d), NetUnits(SplitSym, SplitDay)))

\* C4: a split of multiplier m on day s of a symbol first traded on or before s
\* is reconstructed, on every day from the first trade through yesterday, as
\* the unsplit units before s and m times the units held on s from s onward
\* (plus later trades), wherever s lies relative to the last trade.
C4_SplitScalesFromSplitDay ==
    (run = 1 /\ Finished /\ OneSplitOfHeld) =>
        /\ etPc = "done"
        /\ result.index = SetMin(TradeDays)..(Today - 1)
        /\ \A d \in result.index :
              result.holdings[d][TickerMapper[SplitSym]] = SplitExpected(d)


\* ---- several split rows of one symbol on one day
SymOf(asset) == CHOOSE y \in DOMAIN TickerMapper : TickerMapper[y] = asset
SplitRowsOn(d, y) ==
    {i \in SplitIdx : DayOf(ledger[i].time) = d /\ ledger[i].details.sym = y}
\* the rows among them that repeat no earlier row's timestamp and text
DistinctSplitRowsOn(d, y) ==
    {i \in SplitRowsOn(d, y) :
        \A j \in SplitRowsOn(d, y) :
            j < i => ~(ledger[j].time = ledger[i].time
                        /\ ledger[j].details = ledger[i].details)}
ProductOver(I) ==
    LET o == SortedSeq(I)
    IN  ProdSeq([k \in 1..Len(o) |-> Multiplier(ledger[o[k]])])

\* the multiplier of every (day, asset) of the splits table is Product(day, symbol),
\* and it is the one applied to the position when a single split day is applied
SplitsCombineTo(Product(_, _)) ==
    (run = 1 /\ etPc \in {"apply", "build", "done"}) =>
        /\ \A g \in 1..Len(splits) :
              splits[g].mult = Product(splits[g].date, SymOf(splits[g].asset))
        /\ (etPc = "done" /\ Len(splits) = 1) =>
              result.holdings[splits[1].date][splits[1].asset]
                = VMul(NetUnits(SymOf(splits[1].asset), splits[1].date),
                       Product(splits[1].date, SymOf(splits[1].asset)))

AllRowsProduct(d, y) == ProductOver(SplitRowsOn(d, y))
DistinctRowsProduct(d, y) == ProductOver(DistinctSplitRowsOn(d, y))

C6_CallerTableUnchanged ==
    Finished => acc_activity = FreshTable(ledger)

\* C7: a second run on the same ledger, after a first run that succeeded,
\* succeeds too and returns the same holdings and cashflows.
C7_SecondRunIdentical ==
    (run = 2 /\ Finished /\ result1.pc = "done") =>
        /\ etPc = "done"
        /\ result.holdings = result1.obj.holdings
        /\ result.cashflows = result1.obj.cashflows

MaxPfDay == 3        \* holdings and prices are dated in 0..MaxPfDay

PfDays == 0..MaxPfDay

\* orders in which the columns of a table can come
PfColumnOrders == {<<AssetOrder[1]>>, AssetOrder, <<AssetOrder[2], AssetOrder[1]>>}

\* units held of the first asset over time; the second asset is held flat
PfUnitPaths ==
    {[d \in PfDays |-> Num(0)], [d \in PfDays |-> Num(1)], [d \in PfDays |-> Num(d)]}
PfUnitsOf(a, path) == IF a = AssetOrder[1] THEN path ELSE [d \in PfDays |-> Num(2)]

\* price of the first asset over time; the second asset's price rises daily
PfPricePaths == {[d \in PfDays |-> Num(1)], [d \in PfDays |-> Num(d + 1)]}
PfPriceOf(a, path) == IF a = AssetOrder[1] THEN path ELSE [d \in PfDays |-> Num(d + 2)]

\* cash balance over time; None is a Holdings built without cash_holdings
PfCashPaths ==
    {[d \in PfDays |-> Num(0)], [d \in PfDays |-> Num(1)], [d \in PfDays |-> Num(d)]}

PfTable(idx, cols, cells) ==
    [idx |-> idx, cols |-> cols,
     val |-> [d \in idx |-> [a \in Range(cols) |-> cells[<<d, a>>]]]]

PfSeries(name, idx, path) ==
    [name |-> name, idx |-> idx, val |-> [d \in idx |-> path[d]]]

\* Holdings.__init__
HoldingsInit(holdings, cfs, cash) ==
    [holdings      |-> holdings,
     cashflows     |-> cfs,
     cash_holdings |-> cash,
     invested      |-> SumSeq([i \in 1..Len(SortedSeq(DOMAIN cfs)) |->
                                  cfs[SortedSeq(DOMAIN cfs)[i]]]),
     sdate         |-> SetMin(holdings.idx),
     edate         |-> SetMax(holdings.idx),
     tickers       |-> holdings.cols]

\* holdings objects: a contiguous daily index from day 0, the cash series on
\* the same index, no deposit or one deposit on day 1
PfCashOptions(idx) == {PfSeries("USD", idx, c) : c \in PfCashPaths} \cup {None}
PfHoldingsObjs ==
    UNION {{HoldingsInit(
                PfTable(0..hi, cols,
                        [x \in (0..hi) \X Range(cols) |-> PfUnitsOf(x[2], u)[x[1]]]),
                [d \in cfDays |-> Num(1)],
                cash) : cash \in PfCashOptions(0..hi)} :
             <<cols, hi, u, cfDays>> \in
                 PfColumnOrders \X PfDays \X PfUnitPaths \X {{}, {1}}}

\* price tables: any non-empty set of trading days, no missing price
PfPriceTables ==
    {PfTable(idx, cols, [x \in idx \X Range(cols) |-> PfPriceOf(x[2], q)[x[1]]]) :
       <<idx, cols, q>> \in (SUBSET PfDays \ {{}}) \X PfColumnOrders \X PfPricePaths}


(***************************************************************************)
(* Portfolio.__init__: steps                                               *)
(***************************************************************************)
PfRaised(kind, at) == [kind |-> kind, at |-> at]
PfNoError == [kind |-> "None", at |-> "None"]

\* line 64: the two column Indexes are compared element by element, which
\* pandas refuses for Indexes of different lengths
PfColumnsCheck(hcols, pcols) ==
    IF Len(hcols) # Len(pcols) THEN "ValueError"
    ELSE IF \E i \in 1..Len(hcols) : hcols[i] # pcols[i] THEN "AssertionError"
    ELSE "None"

\* DataFrame.loc[dates]
PfLoc(t, dates) ==
    [idx |-> dates, cols |-> t.cols, val |-> [d \in dates |-> t.val[d]]]

\* Series.any(), a cash column that is everywhere non-zero
PfCashAll(cash) == \A d \in cash.idx : ~IsZero(cash.val[d])
\* Series.any(): NaN is skipped, any other non-zero value is true
PfCashAny(cash) == \E d \in cash.idx : ~IsNaN(cash.val[d]) /\ ~IsZero(cash.val[d])

\* lines 79-84: holdings * prices, with the cash series merged in on the index
\* as one more column when it has a non-zero value
PfBreakdown(h, p, cash) ==
    LET labels == Range(h.cols) \cup Range(p.cols)
        days == h.idx \cup p.idx
        product == [x \in days \X labels |->
                       IF x[1] \in h.idx /\ x[1] \in p.idx
                          /\ x[2] \in Range(h.cols) /\ x[2] \in Range(p.cols)
                       THEN VMul(h.val[x[1]][x[2]], p.val[x[1]][x[2]]) ELSE NaN]
        \* equal column Indexes are kept as they are, others joined and sorted
        columns == IF h.cols = p.cols THEN h.cols ELSE SortedAssets(labels)
        temp == PfTable(days, columns, product)
    IN  IF PfCashAny(cash)
        THEN LET rows == temp.idx \cap cash.idx
                 merged == [x \in rows \X (labels \cup {cash.name}) |->
                              IF x[2] = cash.name THEN cash.val[x[1]]
                              ELSE temp.val[x[1]][x[2]]]
             IN  PfTable(rows, Append(temp.cols, cash.name), merged)
        ELSE temp

\* DataFrame.sum(axis=1): NaN cells are skipped
PfRowSum(t, d) ==
    SumSeq(SelectSeq([i \in 1..Len(t.cols) |-> t.val[d][t.cols[i]]],
                     LAMBDA x : ~IsNaN(x)))
PfRowSums(t) == [d \in t.idx |-> PfRowSum(t, d)]

\* (mutant) every row divided by the total of the first row
PfDivByFirstRow(t, s) ==
    PfTable(t.idx, t.cols,
            [x \in t.idx \X Range(t.cols) |->
                VDiv(t.val[x[1]][x[2]], s[SetMin(t.idx)])])
\* DataFrame.div(series, axis=0)
PfDivRows(t, s) ==
    PfTable(t.idx, t.cols,
            [x \in t.idx \X Range(t.cols) |-> VDiv(t.val[x[1]][x[2]], s[x[1]])])

PfInit ==
    /\ holdings_obj \in PfHoldingsObjs
    /\ prices \in PfPriceTables
    /\ pfPc = "check"
    /\ pfErr = PfNoError
    /\ self_holdings = None /\ self_prices = None /\ cash_holdings = None
    /\ invested = None /\ self_tickers = None
    /\ nav_breakdown = None /\ value = None /\ sdate = None /\ edate = None
    /\ weights = None
    /\ HprIdle
    /\ EtIdle
    /\ RtIdle
    /\ AsIdle

PfFail(kind, at) == pfPc' = "failed" /\ pfErr' = PfRaised(kind, at)

\* line 64
PfStepCheck ==
    /\ pfPc = "check"
    /\ LET e == PfColumnsCheck(holdings_obj.holdings.cols, prices.cols)
       IN  IF e = "None" THEN pfPc' = "align" /\ UNCHANGED pfErr
           ELSE PfFail(e, "check")
    /\ UNCHANGED <<holdings_obj, prices, self_holdings, self_prices, cash_holdings,
                   invested, self_tickers, nav_breakdown, value, sdate, edate, weights,
                   hprVars, etVars, rtVars, asVars>>

\* lines 67-76
PfStepAlign ==
    /\ pfPc = "align"
    /\ LET common_dates == holdings_obj.holdings.idx \cap prices.idx
       IN  /\ self_holdings' = PfLoc(holdings_obj.holdings, common_dates)
           /\ self_prices' = PfLoc(prices, common_dates)
    /\ cashflows' = holdings_obj.cashflows
    /\ cash_holdings' = holdings_obj.cash_holdings
    /\ invested' = holdings_obj.invested
    /\ self_tickers' = holdings_obj.tickers
    /\ pfPc' = "nav"
    /\ UNCHANGED <<holdings_obj, prices, pfErr, nav_breakdown, value, sdate, edate,
                   weights, nav, padFill, hprPc, df, cfTodo, hpr, etVars, rtVars, asVars>>

\* lines 79-86; None has no method any()
PfStepNav ==
    /\ pfPc = "nav"
    /\ IF cash_holdings = None
       THEN /\ PfFail("AttributeError", "nav")
            /\ UNCHANGED <<nav_breakdown, nav>>
       ELSE /\ nav_breakdown' = PfBreakdown(self_holdings, self_prices, cash_holdings)
            /\ nav' = PfRowSums(nav_breakdown')
            /\ pfPc' = "value"
            /\ UNCHANGED pfErr
    /\ UNCHANGED <<holdings_obj, prices, self_holdings, self_prices, cash_holdings,
                   invested, self_tickers, value, sdate, edate, weights,
                   cashflows, padFill, hprPc, df, cfTodo, hpr, etVars, rtVars, asVars>>

\* lines 89-97; iloc[-1] of an empty series is out of bounds, the frequency
\* check only prints
PfStepValue ==
    /\ pfPc = "value"
    /\ IF DOMAIN nav = {}
       THEN PfFail("IndexError", "value") /\ UNCHANGED value
       ELSE value' = nav[SetMax(DOMAIN nav)] /\ pfPc' = "hpr" /\ UNCHANGED pfErr
    /\ UNCHANGED <<holdings_obj, prices, self_holdings, self_prices, cash_holdings,
                   invested, self_tickers, nav_breakdown, sdate, edate, weights,
                   hprVars, etVars, rtVars, asVars>>

\* lines 100-102
PfStepHpr ==
    /\ pfPc = "hpr"
    /\ padFill' \in BOOLEAN
    /\ hpr' = HprOf(nav, cashflows, padFill')
    /\ IF Len(hpr') < 2
       THEN PfFail("IndexError", "hpr") /\ UNCHANGED <<sdate, edate>>
       ELSE /\ sdate' = hpr'[1].date
            /\ edate' = hpr'[2].date
            /\ pfPc' = "weights"
            /\ UNCHANGED pfErr
    /\ UNCHANGED <<holdings_obj, prices, self_holdings, self_prices, cash_holdings,
                   invested, self_tickers, nav_breakdown, value, weights,
                   nav, cashflows, hprPc, df, cfTodo, etVars, rtVars, asVars>>

\* lines 105-106
PfStepWeights ==
    /\ pfPc = "weights"
    /\ weights' = PfDivRows(nav_breakdown, PfRowSums(nav_breakdown))
    /\ pfPc' = "done"
    /\ UNCHANGED <<holdings_obj, prices, pfErr, self_holdings, self_prices,
                   cash_holdings, invested, self_tickers, nav_breakdown, value, sdate,
                   edate, hprVars, etVars, rtVars, asVars>>

PfNext ==
    \/ PfStepCheck
    \/ PfStepAlign
    \/ PfStepNav
    \/ PfStepValue
    \/ PfStepHpr
    \/ PfStepWeights

SpecPortfolio == PfInit /\ [][PfNext]_vars


(***************************************************************************)
(* Properties of Portfolio.__init__, stated on its two arguments           *)
(***************************************************************************)
PfPassedCheck == pfPc # "check" /\ ~(pfPc = "failed" /\ pfErr.at = "check")
PfCommonDates == holdings_obj.holdings.idx \cap prices.idx

\* C9: the precondition check passes exactly when the holdings columns and the
\* price columns are the same set, in whatever order they come, and when it
\* fails the construction ends there, with no NAV computed.
C9_PassesIffSameColumnSet ==
    (pfPc # "check") =>
        /\ PfPassedCheck <=>
              Range(holdings_obj.holdings.cols) = Range(prices.cols)
        /\ ~PfPassedCheck =>
              pfPc = "failed" /\ nav_breakdown = None /\ nav = <<>>

\* value of the holdings on day d from the arguments: units times price over
\* the assets held, plus the cash balance of the day
PfExpectedNav(d) ==
    LET cols == holdings_obj.holdings.cols
    IN  VAdd(SumSeq([i \in 1..Len(cols) |->
                        VMul(holdings_obj.holdings.val[d][cols[i]],
                             prices.val[d][cols[i]])]),
             holdings_obj.cash_holdings.val[d])

\* C10: once computed, the NAV series is defined on exactly the dates that are
\* in both the holdings index and the price index, and on each of them it is
\* the sum over assets of units times price plus the cash balance of the date.
C10_NavOnCommonDates ==
    (nav_breakdown # None) =>
        /\ DOMAIN nav = PfCommonDates
        /\ \A d \in PfCommonDates : nav[d] = PfExpectedNav(d)

C10_Witness ==
    /\ nav_breakdown # None
    /\ PfCashAny(holdings_obj.cash_holdings)
    /\ Len(holdings_obj.holdings.cols) = 2
    /\ PfCommonDates = {1, 2}
    /\ holdings_obj.holdings.idx = 0..2
    /\ prices.idx = {1, 2, 3}
    /\ nav = (1 :> Num(9)) @@ (2 :> Num(16))

PfWeightsOn(d) == [i \in 1..Len(weights.cols) |-> weights.val[d][weights.cols[i]]]

\* C11: on every date whose NAV is not 0 the weights of the NAV-breakdown
\* columns (assets and cash) sum to 1, and each weight is the column's value
\* divided by the NAV of the date.
C11_WeightsSumToOne ==
    (pfPc = "done") =>
        /\ weights.idx = DOMAIN nav
        /\ weights.cols = nav_breakdown.cols
        /\ \A d \in DOMAIN nav :
              ~IsZero(nav[d]) =>
                  /\ SumSeq(PfWeightsOn(d)) = Num(1)
                  /\ \A a \in Range(weights.cols) :
                        weights.val[d][a] = VDiv(nav_breakdown.val[d][a], nav[d])

C11_Witness ==
    /\ pfPc = "done"
    /\ weights.cols = <<"BBB.N", "AAA.O", "USD">>
    /\ \E d \in DOMAIN nav : \E e \in DOMAIN nav :
          /\ nav[d] # nav[e]
          /\ PfWeightsOn(d) = <<Fin(6, 9), Fin(2, 9), Fin(1, 9)>>

\* the NAV step (lines 79-86) has been executed, whatever its outcome
PfNavStepTaken == PfPassedCheck /\ pfPc \notin {"align", "nav"}

\* C21: a holdings object without cash component is accepted, and its NAV
\* breakdown is holdings times prices on the common dates with the asset
\* columns only; with a cash component the breakdown has the same asset
\* columns followed by one cash column that holds the cash values as given.
C21_CashColumnOptional ==
    PfNavStepTaken =>
        /\ pfErr.at # "nav"
        /\ nav_breakdown # None
        /\ nav_breakdown.idx = PfCommonDates
        /\ \A d \in PfCommonDates : \A a \in Range(holdings_obj.holdings.cols) :
              nav_breakdown.val[d][a] =
                  VMul(holdings_obj.holdings.val[d][a], prices.val[d][a])
        /\ IF holdings_obj.cash_holdings = None
           THEN nav_breakdown.cols = holdings_obj.holdings.cols
           ELSE /\ nav_breakdown.cols =
                       Append(holdings_obj.holdings.cols,
                              holdings_obj.cash_holdings.name)
                /\ \A d \in PfCommonDates :
                      nav_breakdown.val[d][holdings_obj.cash_holdings.name] =
                          holdings_obj.cash_holdings.val[d]


\* the symbols the ledger trades
TradedSyms == {ledger[i].details.sym : i \in TradeIdx}

\* C15: in a ledger without splits the units of asset a on day d are the sum
\* of the units of the 'Open Position' rows of a dated on or before d minus
\* the sum of the units of its 'Position closed' rows dated on or before d;
\* rows of one asset on one day or at one timestamp all count.
C15_UnitsAreNetTrades ==
    (run = 1 /\ Finished /\ SplitIdx = {} /\ TradeIdx # {}
       /\ UnmappedTradeSyms = {}) =>
        /\ etPc = "done"
        /\ result.index = SetMin(TradeDays)..(Today - 1)
        /\ Range(result.tickers) = {TickerMapper[y] : y \in TradedSyms}
        /\ \A d \in result.index : \A y \in TradedSyms :
              result.holdings[d][TickerMapper[y]] = NetUnits(y, d)

C15_Witness ==
    /\ run = 1 /\ etPc = "done" /\ SplitIdx = {}
    /\ \E i \in TradeIdx : \E j \in TradeIdx : \E k \in TradeIdx :
          /\ i < j
          /\ ledger[i].type = "Open Position" /\ ledger[i].details.sym = "AAA"
          /\ ledger[j].type = "Open Position" /\ ledger[j].details.sym = "AAA"
          /\ ledger[i].time = ledger[j].time /\ ledger[i].time = 0
          /\ ledger[k].type = "Position closed" /\ ledger[k].time = 1
    /\ result.holdings[0]["AAA.O"] = Num(1)
    /\ result.holdings[2]["AAA.O"] = Num(1)


\* net amount deposited on day d
NetDeposit(d) ==
    LET idx == SortedSeq({i \in DepositIdx : DayOf(ledger[i].time) = d})
    IN  SumSeq([k \in 1..Len(idx) |-> ledger[idx[k]].amount])
DepositDays == {DayOf(ledger[i].time) : i \in DepositIdx}

\* C16: the returned cashflow series has one entry for every date with a
\* deposit and no other, equal to the net amount deposited on that date, and
\* the working table of the HPR computation on it carries that amount once.
C16_OneCashflowPerDate ==
    (run = 1 /\ etPc = "done") =>
        /\ Len(result.cashflows) = Cardinality(DepositDays)
        /\ \A i \in 1..Len(result.cashflows) :
              /\ result.cashflows[i].date \in DepositDays
              /\ result.cashflows[i].amount = NetDeposit(result.cashflows[i].date)
        /\ LET t == HprConcat([d \in result.index |-> Num(1)], result.cashflows)
           IN  /\ t.ok
               /\ \A d \in DepositDays :
                     \E r \in 1..Len(t.df) :
                        t.df[r].date = d /\ t.df[r].cf = NetDeposit(d)


LastActivityDay == SetMax(RowDays(ledger))

\* C17: the returned holdings matrix and cash series have the same index, the
\* days from the first trade through yesterday without a gap, and every day
\* after the last ledger row carries the units and the cash balance of the day
\* of that row.
C17_DailyIndexForwardFilled ==
    (run = 1 /\ etPc = "done") =>
        /\ result.index = SetMin(TradeDays)..(Today - 1)
        /\ DOMAIN result.holdings = result.index
        /\ DOMAIN result.cash_holdings = result.index
        /\ \A d \in result.index :
              d >= LastActivityDay =>
                  /\ result.holdings[d] = result.holdings[LastActivityDay]
                  /\ result.cash_holdings[d] = ledger[Len(ledger)].balance

C17_Witness ==
    /\ run = 1 /\ etPc = "done"
    /\ LastActivityDay = 0
    /\ result.index = 0..2
    /\ result.tickers = <<"AAA.O">>
    /\ result.holdings[2]["AAA.O"] = Num(1)
    /\ result.cash_holdings[2] = Num(1)


\* the construction has gone through lines 101-102
PfHprComputed ==
    pfPc \in {"weights", "done"} \/ (pfPc = "failed" /\ pfErr.at = "hpr")

\* C20: once the HPR series is computed and has at least one entry, the
\* construction goes on with sdate the first date of the HPR series and edate
\* its last date.
C20_DatesSpanHpr ==
    (PfHprComputed /\ Len(hpr) >= 1) =>
        /\ pfPc # "failed"
        /\ sdate = hpr[1].date
        /\ edate = hpr[Len(hpr)].date


(***************************************************************************)
(* Properties of the reconstruction followed by the valuation              *)
(***************************************************************************)
\* the returned Holdings object as the tables Portfolio.__init__ reads
EtHoldingsTable(obj) == [idx |-> obj.index, cols |-> obj.tickers, val |-> obj.holdings]
EtCashSeries(obj) == [name |-> "USD", idx |-> obj.index, val |-> obj.cash_holdings]
\* prices of 1 for every asset on every day of the holdings
UnitPrices(obj) ==
    PfTable(obj.index, obj.tickers,
            [x \in obj.index \X Range(obj.tickers) |-> Num(1)])

\* C12: a ledger with deposits and no trade row is reconstructed, without an
\* exception, into an all-zero holdings matrix, and its valuation gives a NAV
\* equal to the cash balance on every date. Stated for the ledgers made of
\* deposit rows only, the plainest of the ledgers the claim covers.
C12_ZeroTradeLedger ==
    (run = 1 /\ Finished /\ DepositIdx = 1..Len(ledger)) =>
        /\ etPc = "done"
        /\ \A d \in result.index : \A a \in Range(result.tickers) :
              IsZero(result.holdings[d][a])
        /\ LET nb == PfBreakdown(EtHoldingsTable(result), UnitPrices(result),
                                 EtCashSeries(result))
           IN  \A d \in result.index : PfRowSum(nb, d) = result.cash_holdings[d]


(***************************************************************************)
(* providers._retry: the wrapper that retries a fetch                      *)
(***************************************************************************)
MaxRetry == 3        \* n is at most MaxRetry
MaxNegRetry == 1     \* n is at least -MaxNegRetry
MaxWait == 1         \* wait is 0..MaxWait seconds

Responses == {"r1", "r2"}
\* exception classes derived from Exception, which the handler catches
Exceptions == {"ConnectionError", "TimeoutError"}
\* exception classes derived from BaseException only, which it does not catch
BaseExceptions == {"KeyboardInterrupt"}

Returns(v) == [kind |-> "return", val |-> v]
Raises(e) == [kind |-> "raise", val |-> e]
RtOutcomes ==
    {Returns(v) : v \in Responses} \cup {Raises(e) : e \in Exceptions \cup BaseExceptions}

\* (mutant) one attempt less than n
RtRetriesShort(a, limit) == a < limit - 1
\* line 35: attempt < n
RtRetries(a, limit) == a < limit

\* (mutant) the failure of the first attempt is raised
RtFirstFailure(log) == log[1]
\* line 44: a bare raise re-raises the exception being handled
RtReraised(log) == log[Len(log)]

\* (mutant) no pause between two attempts
RtNoSleep(slept, secs) == slept
\* line 40: time.sleep(wait)
RtSleep(slept, secs) == Append(slept, secs)

\* DataProvider._ADJ_OPTIONS
AdjOptions == {"adjusted", "unadjusted"}
\* values of the argument adj: the two options and a value that is none
AdjInputs == AdjOptions \cup {"raw"}
\* exception classes, derived from Exception, that attempt raises itself
AttemptErrors == {"ValueError", "NotImplementedError"}

\* LSEG.get_historical, attempt, lines 22 and 33: the branches that call
\* rd.get_history
LsegCallsApi(a) == a = "adjusted" \/ a = "unadjusted"
\* LSEG.get_historical, attempt: the if/elif chain of lines 22-50, where
\* retrieval is what rd.get_history and the treatment of its table do
LsegAttempt(a, retrieval) ==
    IF a = "adjusted" THEN retrieval
    ELSE IF a = "unadjusted" THEN retrieval
    ELSE IF a \notin AdjOptions THEN Raises("ValueError")
    ELSE Raises("NotImplementedError")

\* DataProvider.__init__ and the decoration of attempt, before wrapper runs
RtStart ==
    /\ rtN \in (0 - MaxNegRetry)..MaxRetry
    /\ rtWait \in 0..MaxWait
    /\ rtScript \in [1..MaxRetry -> RtOutcomes]
    /\ rtPc = "loop"
    /\ attempt = 0
    /\ rtOutcome = None
    /\ rtLog = <<>>
    /\ rtSlept = <<>>
    /\ rtReturned = None
    /\ rtRaised = None
    /\ apiCalls = 0
    /\ HprIdle
    /\ EtIdle
    /\ PfIdle
    /\ AsIdle

\* get_historical called with one of the two adjustment options
RtInit == adj \in AdjOptions /\ RtStart
\* get_historical called with any value of adj
LsegInit == adj \in AdjInputs /\ RtStart

\* line 29: the next value of range(1, n + 1)
RtLoopNext ==
    /\ rtPc = "loop"
    /\ attempt < rtN
    /\ attempt' = attempt + 1
    /\ rtPc' = "call"
    /\ UNCHANGED <<rtN, rtWait, rtScript, rtOutcome, rtLog, rtSlept, rtReturned,
                   rtRaised, adj, apiCalls, hprVars, etVars, pfVars,
                   asVars>>

\* line 29: the range is exhausted, wrapper falls off its end and returns None
RtLoopEnd ==
    /\ rtPc = "loop"
    /\ attempt >= rtN
    /\ rtReturned' = Returns("None")
    /\ rtPc' = "returned"
    /\ UNCHANGED <<rtN, rtWait, attempt, rtScript, rtOutcome, rtLog, rtSlept,
                   rtRaised, adj, apiCalls, hprVars, etVars, pfVars,
                   asVars>>

\* line 32: func(*args, **kwargs), func being attempt of LSEG.get_historical
RtCall ==
    /\ rtPc = "call"
    /\ rtOutcome' = LsegAttempt(adj, rtScript[Len(rtLog) + 1])
    /\ apiCalls' = IF LsegCallsApi(adj) THEN apiCalls + 1 ELSE apiCalls
    /\ rtLog' = Append(rtLog, rtOutcome')
    /\ rtPc' = IF rtOutcome'.kind = "return" THEN "return"
               ELSE IF rtOutcome'.val \in Exceptions \cup AttemptErrors THEN "except"
               ELSE "propagate"
    /\ UNCHANGED <<rtN, rtWait, attempt, rtScript, rtSlept, rtReturned, rtRaised,
                   adj, hprVars, etVars, pfVars, asVars>>

\* line 32: return of the value
RtReturn ==
    /\ rtPc = "return"
    /\ rtReturned' = rtOutcome
    /\ rtPc' = "returned"
    /\ UNCHANGED <<rtN, rtWait, attempt, rtScript, rtOutcome, rtLog, rtSlept,
                   rtRaised, adj, apiCalls, hprVars, etVars, pfVars,
                   asVars>>

\* line 34: an exception that is no Exception passes the handler
RtPropagate ==
    /\ rtPc = "propagate"
    /\ rtRaised' = rtOutcome
    /\ rtPc' = "raised"
    /\ UNCHANGED <<rtN, rtWait, attempt, rtScript, rtOutcome, rtLog, rtSlept,
                   rtReturned, adj, apiCalls, hprVars, etVars, pfVars,
                   asVars>>

\* lines 35-40
RtRetry ==
    /\ rtPc = "except"
    /\ RtRetries(attempt, rtN)
    /\ rtSlept' = RtSleep(rtSlept, rtWait)
    /\ rtPc' = "loop"
    /\ UNCHANGED <<rtN, rtWait, attempt, rtScript, rtOutcome, rtLog, rtReturned,
                   rtRaised, adj, apiCalls, hprVars, etVars, pfVars,
                   asVars>>

\* lines 41-44
RtGiveUp ==
    /\ rtPc = "except"
    /\ ~RtRetries(attempt, rtN)
    /\ rtRaised' = RtReraised(rtLog)
    /\ rtPc' = "raised"
    /\ UNCHANGED <<rtN, rtWait, attempt, rtScript, rtOutcome, rtLog, rtSlept,
                   rtReturned, adj, apiCalls, hprVars, etVars, pfVars,
                   asVars>>

RtNext ==
    \/ RtLoopNext
    \/ RtLoopEnd
    \/ RtCall
    \/ RtReturn
    \/ RtPropagate
    \/ RtRetry
    \/ RtGiveUp

SpecRetry == RtInit /\ [][RtNext]_vars
\* the wrapper is one synchronous thread: a step that can be taken is taken,
\* func and time.sleep come back
SpecRetryLive == SpecRetry /\ WF_vars(RtNext)
\* LSEG.get_historical with any adjustment option
SpecLseg == LsegInit /\ [][RtNext]_vars


(***************************************************************************)
(* Properties of the retry wrapper, stated on what the fetch does at each  *)
(* of its calls                                                            *)
(***************************************************************************)
RtEnded == rtPc \in {"returned", "raised"}
RtFails(i) == rtScript[i].kind = "raise" /\ rtScript[i].val \in Exceptions
RtSucceeds(i) == rtScript[i].kind = "return"
\* the fetch fails at its calls 1..k-1 and succeeds at its call k
RtFirstSuccessAt(k) == RtSucceeds(k) /\ \A i \in 1..(k - 1) : RtFails(i)

\* C13: if the fetch fails on attempts 1..k-1 and succeeds on attempt k <= n,
\* the call makes no attempt after k, and it ends by returning the result of
\* attempt k and raising nothing.
C13_ReturnsFirstSuccess ==
    \A k \in 1..rtN :
        RtFirstSuccessAt(k) =>
            /\ Len(rtLog) <= k
            /\ RtEnded =>
                  /\ rtPc = "returned"
                  /\ rtReturned = rtScript[k]
                  /\ rtRaised = None
                  /\ Len(rtLog) = k

C13_Witness ==
    /\ rtN = 3
    /\ rtScript = <<Raises("ConnectionError"), Raises("TimeoutError"), Returns("r2")>>
    /\ rtPc = "returned"
    /\ rtReturned = Returns("r2")
    /\ Len(rtLog) = 3

\* C14: with n >= 1, if the fetch fails on each of the attempts 1..n, the call
\* makes exactly n attempts and ends by raising the failure of attempt n
\* itself, not that of an earlier attempt, and returns nothing.
C14_RaisesLastFailure ==
    (rtN >= 1 /\ \A i \in 1..rtN : RtFails(i)) =>
        /\ Len(rtLog) <= rtN
        /\ RtEnded =>
              /\ rtPc = "raised"
              /\ rtRaised = rtScript[rtN]
              /\ rtReturned = None
              /\ Len(rtLog) = rtN

C14_Witness ==
    /\ rtN = 3
    /\ rtScript = <<Raises("ConnectionError"), Raises("ConnectionError"),
                    Raises("TimeoutError")>>
    /\ rtPc = "raised"
    /\ rtRaised = Raises("TimeoutError")
    /\ Len(rtLog) = 3

\* the attempts whose outcome the wrapper has dealt with
RtHandled ==
    IF rtPc \in {"return", "except", "propagate"} THEN Len(rtLog) - 1 ELSE Len(rtLog)
\* the attempts, among those dealt with, that a wait has to follow: those that
\* failed (raised an exception derived from Exception) and were not the n-th
RtWaitsDue ==
    {i \in 1..RtHandled :
        rtLog[i].kind = "raise" /\ rtLog[i].val \in Exceptions /\ i < rtN}
\* the attempts run one after the other, numbered from 1
RtSequential ==
    attempt = (IF rtPc = "call" THEN Len(rtLog) + 1 ELSE Len(rtLog))
\* one wait of the configured length after each failed attempt but the n-th:
\* the i-th wait follows attempt i and precedes attempt i + 1
RtWaitsBetweenAttempts ==
    /\ Len(rtSlept) = Cardinality(RtWaitsDue)
    /\ RtWaitsDue = 1..Len(rtSlept)
    /\ \A i \in 1..Len(rtSlept) : rtSlept[i] = rtWait
    /\ Len(rtLog) = 0 => rtSlept = <<>>
    /\ RtEnded /\ Len(rtLog) >= 1 => Len(rtSlept) = Len(rtLog) - 1
Max0(i) == IF i > 0 THEN i ELSE 0

C24_InvalidOptionNotRetried ==
    (adj \notin AdjOptions /\ rtN >= 1) =>
        /\ apiCalls = 0
        /\ rtSlept = <<>>
        /\ Len(rtLog) <= 1
        /\ RtEnded =>
              /\ rtPc = "raised"
              /\ rtRaised = Raises("ValueError")
              /\ Len(rtLog) = 1

\* C23: whatever the retry limit n, also 0 or negative, a call that ends has
\* invoked the fetch at least once, and it ends either by returning the value
\* of its last attempt, which succeeded, or by raising an error.
C23_NeverReturnsWithoutAttempt ==
    RtEnded =>
        /\ Len(rtLog) >= 1
        /\ \/ /\ rtPc = "returned"
              /\ rtLog[Len(rtLog)].kind = "return"
              /\ rtReturned = rtLog[Len(rtLog)]
              /\ rtRaised = None
           \/ /\ rtPc = "raised"
              /\ rtRaised # None
              /\ rtReturned = None


(***************************************************************************)
(* Asset: date-range selection (_hpr_range), cumul and tr                  *)
(***************************************************************************)
MaxAsDay == 4        \* return dates and boundary dates are 0..MaxAsDay

AsDays == 0..MaxAsDay
NoDate == -1         \* an argument left at its default None
AsReturnVals == {Num(1), Fin(-1, 2)}
AsFreqs == {"D", "W"}

\* utils.Frequency.days
FreqDays(f) == CASE f = "D" -> 1 [] f = "W" -> 7 [] f = "M" -> 30 [] OTHER -> 360

\* utils.closest_date: argmin gives the first of the dates at the least distance
ClosestDate(index, target) ==
    LET least == SetMin({Abs(d - target) : d \in index})
    IN  SetMin({d \in index : Abs(d - target) = least})

\* Series.loc[s:e] on a sorted index: the labels from s through e
AsLoc(h, s, e) == [d \in {x \in DOMAIN h : s <= x /\ x <= e} |-> h[d]]

\* Asset._adv_hpr_range
AsAdvHprRange(h, s, e) ==
    IF s \notin DOMAIN h THEN AsLoc(h, ClosestDate(DOMAIN h, s), e)
    ELSE IF e \notin DOMAIN h THEN AsLoc(h, s, ClosestDate(DOMAIN h, e))
    ELSE AsLoc(h, s, e)

\* Asset._hpr_range; self.sdate and self.edate are the ends of the index
AsHprRange(h, s, e) ==
    IF s = NoDate /\ e = NoDate THEN h
    ELSE LET date_range == <<IF s = NoDate THEN SetMin(DOMAIN h) ELSE s,
                             IF e = NoDate THEN SetMax(DOMAIN h) ELSE e>>
         IN  IF date_range[1] \in DOMAIN h /\ date_range[2] \in DOMAIN h
             THEN AsLoc(h, date_range[1], date_range[2])
             ELSE AsAdvHprRange(h, date_range[1], date_range[2])

\* a date-indexed series in index order
AsSeries(h) ==
    LET o == SortedSeq(DOMAIN h)
    IN  [i \in 1..Len(o) |-> [date |-> o[i], val |-> h[o[i]]]]

\* ret + 1
AsGross(q) == [i \in 1..Len(q) |-> [date |-> q[i].date, val |-> VAdd(q[i].val, Num(1))]]

\* np.prod
RECURSIVE AsProd(_)
AsProd(q) == IF q = <<>> THEN Num(1) ELSE VMul(Head(q).val, AsProd(Tail(q)))

\* Series.cumprod() - 1
AsCumprodLessOne(q) ==
    [i \in 1..Len(q) |->
        [date |-> q[i].date, val |-> VSub(AsProd(SubSeq(q, 1, i)), Num(1))]]

\* Asset.tr on the selected returns
AsTr(h) == VSub(AsProd(AsGross(AsSeries(h))), Num(1))

AsInit ==
    /\ \E idx \in (SUBSET AsDays) \ {{}} : asHpr \in [idx -> AsReturnVals]
    /\ asFreq \in AsFreqs
    /\ asMethod \in {"_hpr_range", "cumul", "tr"}
    /\ arg_sdate \in AsDays \cup {NoDate}
    /\ arg_edate \in AsDays \cup {NoDate}
    /\ asPc = "range"
    /\ asRet = <<>>
    /\ asOut = None
    /\ asErr = "None"
    /\ HprIdle
    /\ EtIdle
    /\ PfIdle
    /\ RtIdle

\* the call of _hpr_range that opens each of the three methods
AsStepRange ==
    /\ asPc = "range"
    /\ asRet' = AsHprRange(asHpr, arg_sdate, arg_edate)
    /\ asPc' = "stat"
    /\ UNCHANGED <<asHpr, asFreq, asMethod, arg_sdate, arg_edate, asOut, asErr,
                   hprVars, etVars, pfVars, rtVars>>

\* _hpr_range called for itself
AsStepReturn ==
    /\ asPc = "stat"
    /\ asMethod = "_hpr_range"
    /\ asOut' = AsSeries(asRet)
    /\ asPc' = "done"
    /\ UNCHANGED <<asHpr, asFreq, asMethod, arg_sdate, arg_edate, asRet, asErr,
                   hprVars, etVars, pfVars, rtVars>>

\* cumul, lines 64-72 and 76: no sdate, a 1 is put one period before the
\* first date; ret.index[0] of an empty selection is out of bounds
AsStepCumulPrepend ==
    /\ asPc = "stat"
    /\ asMethod = "cumul"
    /\ arg_sdate = NoDate
    /\ IF DOMAIN asRet = {}
       THEN asErr' = "IndexError" /\ asPc' = "failed" /\ UNCHANGED asOut
       ELSE LET ret == AsGross(AsSeries(asRet))
                new_start == ret[1].date - FreqDays(asFreq)
            IN  /\ asOut' = AsCumprodLessOne(<<[date |-> new_start, val |-> Num(1)]>> \o ret)
                /\ asPc' = "done"
                /\ UNCHANGED asErr
    /\ UNCHANGED <<asHpr, asFreq, asMethod, arg_sdate, arg_edate, asRet,
                   hprVars, etVars, pfVars, rtVars>>

\* cumul, lines 64-65 and 73-76: with an sdate, the first gross return is
\* set to 1; ret.iloc[0] of an empty selection is out of bounds
AsStepCumulOverwrite ==
    /\ asPc = "stat"
    /\ asMethod = "cumul"
    /\ arg_sdate # NoDate
    /\ IF DOMAIN asRet = {}
       THEN asErr' = "IndexError" /\ asPc' = "failed" /\ UNCHANGED asOut
       ELSE LET ret == AsGross(AsSeries(asRet))
            IN  /\ asOut' = AsCumprodLessOne([ret EXCEPT ![1].val = Num(1)])
                /\ asPc' = "done"
                /\ UNCHANGED asErr
    /\ UNCHANGED <<asHpr, asFreq, asMethod, arg_sdate, arg_edate, asRet,
                   hprVars, etVars, pfVars, rtVars>>

\* tr, lines 78-83
AsStepTr ==
    /\ asPc = "stat"
    /\ asMethod = "tr"
    /\ asOut' = AsTr(asRet)
    /\ asPc' = "done"
    /\ UNCHANGED <<asHpr, asFreq, asMethod, arg_sdate, arg_edate, asRet, asErr,
                   hprVars, etVars, pfVars, rtVars>>

AsNext ==
    \/ AsStepRange
    \/ AsStepReturn
    \/ AsStepCumulPrepend
    \/ AsStepCumulOverwrite
    \/ AsStepTr

SpecAsset == AsInit /\ [][AsNext]_vars


(***************************************************************************)
(* Properties of the date-range selection and of cumul                     *)
(***************************************************************************)
\* x is what boundary t becomes: t itself when it is in the index, else an
\* index date at the least distance from t
AsSnapped(x, t) ==
    /\ x \in DOMAIN asHpr
    /\ IF t \in DOMAIN asHpr THEN x = t
       ELSE \A y \in DOMAIN asHpr : Abs(x - t) <= Abs(y - t)

\* C18: for every pair of boundary dates given to a selection, each boundary
\* absent from the index is replaced by the index date nearest to it, each
\* boundary present is used as is, also when both are absent, and the returns
\* selected are those from the resulting start through the resulting end.
C18_SnapsBothBoundaries ==
    (asPc # "range" /\ arg_sdate # NoDate /\ arg_edate # NoDate) =>
        \E x \in DOMAIN asHpr : \E y \in DOMAIN asHpr :
            /\ AsSnapped(x, arg_sdate)
            /\ AsSnapped(y, arg_edate)
            /\ asRet = AsLoc(asHpr, x, y)

\* C19: the cumulative return series of a non-empty window, selected with or
\* without an explicit start date, has one entry more than the window: it
\* starts at the synthetic value (cumulative return 0), its k+1-th entry
\* compounds the first k returns of the window, and its last entry is the total
\* return tr of the same window.
C19_CumulEndsAtTotalReturn ==
    (asMethod = "cumul" /\ asPc \in {"done", "failed"} /\ DOMAIN asRet # {}) =>
        /\ asPc = "done"
        /\ Len(asOut) = Cardinality(DOMAIN asRet) + 1
        /\ asOut[1].val = Num(0)
        /\ \A k \in 1..Cardinality(DOMAIN asRet) :
              asOut[k + 1].val =
                  VSub(AsProd(SubSeq(AsGross(AsSeries(asRet)), 1, k)), Num(1))
        /\ asOut[Len(asOut)].val = AsTr(asRet)

====
